---- MODULE Spec2Model ----
(***************************************************************************)
(* Trip expense splitting: the balance computation and the greedy          *)
(* settlement of the Finalize page, the member summary of the trip         *)
(* dashboard, and the AddExpense page with the hook that stores expenses.  *)
(*                                                                         *)
(* The specifications share the variables:                                 *)
(*   Spec             the Finalize page from the trip kept in              *)
(*                    localStorage: calculateFinalBalances, then the       *)
(*                    matching loop;                                       *)
(*   SpecScenario     the same page on trips whose expenses are shared by  *)
(*                    all the members, in whole currency units;            *)
(*   SpecSettle       calculateOptimalSettlements on any list of members;  *)
(*   SpecSettleCents  the same on balances that are whole hundredths;      *)
(*   SpecDashboard    calculateMemberSummary of the dashboard on a trip    *)
(*                    fetched from the remote store;                       *)
(*   SpecAddExpense   the AddExpense form and addExpense, the trip loaded  *)
(*                    once;                                                *)
(*   SpecLoadTrip     the AddExpense page left alone after its mount: its  *)
(*                    renders, its effect and the answers it gets          *)
(*                    (FairSpecLoadTrip with fairness);                    *)
(*   SpecTrips        the calls of useTrips against the remote store, of   *)
(*                    two users, and the way to the Finalize page          *)
(*                    (FairSpecTrips with fairness).                       *)
(*                                                                         *)
(* Amounts are JavaScript numbers (IEEE doubles) in the source.  Here a    *)
(* number is an integer count of 1/1024 of a currency unit: a binary grid, *)
(* as the doubles are, only coarser.  Whole units are on the grid; a       *)
(* decimal such as 0.01 is not, and stands for the grid value nearest to   *)
(* it (0.01 is 10, 0.03 is 31).  A division rounds to the nearest grid     *)
(* value, ties to even; sums and differences of grid values are exact.     *)
(* A member name or user id is an opaque string.                           *)
(***************************************************************************)
EXTENDS Integers, Sequences, FiniteSets, TLC

VARIABLES
    stored,            \* localStorage["trip_<code>"]: a TripData or NoTrip
    tripData,          \* Finalize state: null or the parsed TripData
    members,           \* the array handed to calculateOptimalSettlements
    memberSummary,     \* Finalize state: Member[]
    debtors,           \* local of calculateOptimalSettlements (working copies)
    creditors,         \* local of calculateOptimalSettlements (working copies)
    settlementsLocal,  \* local `settlements` of calculateOptimalSettlements
    settlements,       \* Finalize state: Settlement[]
    pc,                \* where the Finalize computation stands
    dash,              \* the trip dashboard: its inputs and its memberSummary
    form,              \* the AddExpense page: its state and the hook's request
    db,                \* the remote store: the trip and the rows written
    hook               \* a useTrips instance: its loading flag and its calls

vars == <<stored, tripData, members, memberSummary, debtors, creditors,
          settlementsLocal, settlements, pc, dash, form, db, hook>>

finalizeVars == <<stored, tripData, members, memberSummary, debtors, creditors,
                  settlementsLocal, settlements, pc>>

-----------------------------------------------------------------------------
(* Bounds of the model *)

MaxExpenses == 2
MaxSettleMembers == 5
MaxDashExpenses == 2
MaxScenarioExpenses == 2
MaxStoredExpenses == 1

(* 1.00 on the grid *)
One == 1024

(* 0.01, the literal of the two removal tests: the grid value nearest to it *)
Tolerance == 10

-----------------------------------------------------------------------------
(* Numbers *)

Abs(x) == IF x < 0 THEN -x ELSE x

Min(a, b) == IF a < b THEN a ELSE b

NotFinite == "Infinity or NaN"

\* a / n in JavaScript: the quotient rounded to the nearest representable
\* value, ties to even; a division by zero gives Infinity, -Infinity or NaN.
Div(a, n) ==
    IF n = 0 THEN NotFinite
    ELSE LET q == a \div n
             r == a % n
         IN  IF 2 * r < n THEN q
             ELSE IF 2 * r > n THEN q + 1
             ELSE IF q % 2 = 0 THEN q ELSE q + 1

RECURSIVE Pow10(_)
Pow10(d) == IF d = 0 THEN 1 ELSE 10 * Pow10(d - 1)

\* the number that the decimal n / 10^d stands for, in a literal or a text
\* read by the program: the grid value nearest to it
FromDecimal(n, d) ==
    LET q == Pow10(d)
        Near(m) == (2 * m * One + q) \div (2 * q)
    IN  IF n >= 0 THEN Near(n) ELSE -Near(-n)

\* the number that k hundredths stand for
Cents(k) == FromDecimal(k, 2)

\* the decimal of d places nearest to the number x >= 0, as a count of 10^-d
NearestDecimal(x, d) == (2 * x * Pow10(d) + One) \div (2 * One)

\* the places of the text that a number x >= 0 is written as (String(x),
\* JSON.stringify): the fewest, from d on, whose decimal reads back as x
RECURSIVE PlacesFrom(_, _)
PlacesFrom(x, d) ==
    IF FromDecimal(NearestDecimal(x, d), d) = x THEN d ELSE PlacesFrom(x, d + 1)

Range(f) == {f[i] : i \in DOMAIN f}

RECURSIVE SumSeq(_)
SumSeq(s) == IF s = <<>> THEN 0 ELSE Head(s) + SumSeq(Tail(s))

-----------------------------------------------------------------------------
(* The summary object of calculateFinalBalances: a JavaScript object keyed  *)
(* by member name, kept here as the sequence of its values in key insertion *)
(* order, which is the order of Object.values.                              *)

NoTrip == [none |-> TRUE]

NewMember(m) == [name |-> m, totalPaid |-> 0, totalOwed |-> 0, balance |-> 0]

HasKey(summary, k) == \E i \in 1..Len(summary) : summary[i].name = k

KeyIndex(summary, k) == CHOOSE i \in 1..Len(summary) : summary[i].name = k

\* data.members.forEach(member => summary[member] = {...zeros})
RECURSIVE InitSummary(_, _)
InitSummary(names, summary) ==
    IF names = <<>> THEN summary
    ELSE LET m == Head(names)
         IN  InitSummary(Tail(names),
                 IF HasKey(summary, m)
                 THEN [summary EXCEPT ![KeyIndex(summary, m)] = NewMember(m)]
                 ELSE Append(summary, NewMember(m)))

\* Reading a property of summary[k] for a k that is no key throws a TypeError.
Thrown == [ok |-> FALSE]

Computed(summary) == [ok |-> TRUE, summary |-> summary]

\* a faulty variant, `=` for `+=`: the payer's total is overwritten
AddPaidAssign(summary, e) ==
    IF ~HasKey(summary, e.paidBy) THEN Thrown
    ELSE Computed([summary EXCEPT ![KeyIndex(summary, e.paidBy)].totalPaid =
                       e.amount])

\* summary[expense.paidBy].totalPaid += expense.amount
AddPaid(summary, e) ==
    IF ~HasKey(summary, e.paidBy) THEN Thrown
    ELSE Computed([summary EXCEPT ![KeyIndex(summary, e.paidBy)].totalPaid =
                       @ + e.amount])

\* a faulty variant that charges the share to the first split member only
AddOwedFirstOnly(summary, split, splitAmount) ==
    IF split = <<>> THEN Computed(summary)
    ELSE IF ~HasKey(summary, Head(split)) THEN Thrown
    ELSE Computed([summary EXCEPT ![KeyIndex(summary, Head(split))].totalOwed =
                       @ + splitAmount])

\* expense.splitAmong.forEach(member => summary[member].totalOwed += splitAmount)
RECURSIVE AddOwed(_, _, _)
AddOwed(summary, split, splitAmount) ==
    IF split = <<>> THEN Computed(summary)
    ELSE IF ~HasKey(summary, Head(split)) THEN Thrown
    ELSE AddOwed([summary EXCEPT ![KeyIndex(summary, Head(split))].totalOwed =
                      @ + splitAmount],
                 Tail(split), splitAmount)

\* the body of data.expenses.forEach
AddExpenseTotals(summary, e) ==
    LET paid == AddPaid(summary, e)
    IN  IF ~paid.ok THEN Thrown
        ELSE AddOwed(paid.summary, e.splitAmong,
                     Div(e.amount, Len(e.splitAmong)))

RECURSIVE CalculateTotals(_, _)
CalculateTotals(summary, expenses) ==
    IF expenses = <<>> THEN Computed(summary)
    ELSE LET one == AddExpenseTotals(summary, Head(expenses))
         IN  IF ~one.ok THEN Thrown
             ELSE CalculateTotals(one.summary, Tail(expenses))

\* a faulty variant with the difference the other way round
SetBalanceReversed(m) == [m EXCEPT !.balance = m.totalOwed - m.totalPaid]

\* member.balance = member.totalPaid - member.totalOwed
SetBalance(m) == [m EXCEPT !.balance = m.totalPaid - m.totalOwed]

\* calculateFinalBalances up to `const members = Object.values(summary)`
FinalBalances(d) ==
    LET totals == CalculateTotals(InitSummary(d.members, <<>>), d.expenses)
    IN  IF ~totals.ok THEN Thrown
        ELSE Computed([i \in 1..Len(totals.summary) |->
                           SetBalance(totals.summary[i])])

-----------------------------------------------------------------------------
(* calculateOptimalSettlements *)

\* a faulty variant, `<=` for `<`: members with a zero balance become debtors
IsDebtorOrZero(m) == m.balance <= 0

IsDebtor(m) == m.balance < 0

\* a faulty variant, `>=` for `>`: members with a zero balance become creditors
IsCreditorOrZero(m) == m.balance >= 0

IsCreditor(m) == m.balance > 0

\* An object of the members array is known by its position in the array.  A
\* working entry of debtors or creditors carries, next to its fields, the
\* field `of`: the position of the array's object that it is, or NoObject for
\* an object of its own.
NoObject == 0

\* a faulty variant without the copy: the entry is the array's object itself
SpreadAlias(m, i) ==
    [name |-> m.name, totalPaid |-> m.totalPaid, totalOwed |-> m.totalOwed,
     balance |-> m.balance, of |-> i]

\* ({ ...m }) for the object m at position i: a new object with m's fields
Spread(m, i) ==
    [name |-> m.name, totalPaid |-> m.totalPaid, totalOwed |-> m.totalOwed,
     balance |-> m.balance, of |-> NoObject]

\* a faulty variant that goes through the array from its end
PositionsFromEnd(ms) == [i \in 1..Len(ms) |-> Len(ms) + 1 - i]

\* the positions 1 .. ms.length, which a filter goes through in order
Positions(ms) == [i \in 1..Len(ms) |-> i]

\* members.filter(m => m.balance < 0).map(m => ({ ...m }))
DebtorsOf(ms) ==
    LET Kept(i) == IsDebtor(ms[i])
        kept == SelectSeq(Positions(ms), Kept)
    IN  [k \in 1..Len(kept) |-> Spread(ms[kept[k]], kept[k])]

\* members.filter(m => m.balance > 0).map(m => ({ ...m }))
CreditorsOf(ms) ==
    LET Kept(i) == IsCreditor(ms[i])
        kept == SelectSeq(Positions(ms), Kept)
    IN  [k \in 1..Len(kept) |-> Spread(ms[kept[k]], kept[k])]

\* an assignment to entry.balance as the array ms sees it: the array's object
\* changes when the entry is that object, and not when the entry is a copy
StoreBalance(ms, entry, balance) ==
    IF entry.of \in 1..Len(ms) THEN [ms EXCEPT ![entry.of].balance = balance]
    ELSE ms

\* a faulty variant without Math.abs
TransferAmountNoAbs(debtor, creditor) == Min(debtor.balance, creditor.balance)

\* a faulty variant that takes the larger of the two: it pays past zero
TransferAmountMax(debtor, creditor) ==
    IF Abs(debtor.balance) > creditor.balance THEN Abs(debtor.balance)
    ELSE creditor.balance

\* Math.min(Math.abs(debtor.balance), creditor.balance)
TransferAmount(debtor, creditor) == Min(Abs(debtor.balance), creditor.balance)

\* a faulty variant that names the debtor twice
TransferToDebtor(debtor, creditor, amount) ==
    [from |-> debtor.name, to |-> debtor.name, amount |-> amount]

\* a faulty variant that records twice the amount moved
TransferDoubled(debtor, creditor, amount) ==
    [from |-> debtor.name, to |-> creditor.name, amount |-> 2 * amount]

\* settlements.push({ from: debtor.name, to: creditor.name, amount: amount })
Transfer(debtor, creditor, amount) ==
    [from |-> debtor.name, to |-> creditor.name, amount |-> amount]

\* a faulty variant with 0 for the tolerance: a paid debtor is never removed
DebtorDoneBelowZero(debtor) == Abs(debtor.balance) < 0

\* if (Math.abs(debtor.balance) < 0.01) debtors.shift()
DebtorDone(debtor) == Abs(debtor.balance) < Tolerance

\* a faulty variant that removes the creditor after every transfer
CreditorDoneAlways(creditor) == creditor.balance < Tolerance \/ TRUE

\* if (creditor.balance < 0.01) creditors.shift()
CreditorDone(creditor) == creditor.balance < Tolerance

-----------------------------------------------------------------------------
(* The inputs *)

\* The names a stored trip may use; the amounts: 0 and 1.00.
Names == <<"Alice", "Bob", "Carol">>

Amounts == {0, One}

NameSet == {Names[i] : i \in 1..Len(Names)}

\* the names of S in the order of Names
Selection(S) == LET Chosen(n) == n \in S IN SelectSeq(Names, Chosen)

\* the selections of names, each in the order of Names and free of repeats
SplitLists == {Selection(S) : S \in SUBSET NameSet}

Expenses == [amount : Amounts, paidBy : NameSet, splitAmong : SplitLists]

SeqsUpTo(S, n) == UNION {[1..k -> S] : k \in 0..n}

TripDatas ==
    [members : {SubSeq(Names, 1, k) : k \in 0..Len(Names)},
     expenses : SeqsUpTo(Expenses, MaxExpenses)]

NoDash == [none |-> TRUE]

NoForm == [none |-> TRUE]

NoDb == [none |-> TRUE]

NoHook == [none |-> TRUE]

-----------------------------------------------------------------------------
(* The Finalize page *)

Init ==
    /\ stored \in TripDatas \cup {NoTrip}
    /\ tripData = NoTrip
    /\ members = <<>>
    /\ memberSummary = <<>>
    /\ debtors = <<>>
    /\ creditors = <<>>
    /\ settlementsLocal = <<>>
    /\ settlements = <<>>
    /\ pc = "mount"
    /\ dash = NoDash
    /\ form = NoForm
    /\ db = NoDb
    /\ hook = NoHook

\* useEffect: nothing stored under the trip code, navigate("/")
MountWithoutTrip ==
    /\ pc = "mount"
    /\ stored = NoTrip
    /\ pc' = "home"
    /\ UNCHANGED <<stored, tripData, members, memberSummary, debtors, creditors,
                   settlementsLocal, settlements, dash, form, db, hook>>

\* useEffect with a stored trip: setTripData(data); calculateFinalBalances(data),
\* which calls calculateOptimalSettlements(members); up to the loop's first test.
CalculateFinalBalances ==
    /\ pc = "mount"
    /\ stored # NoTrip
    /\ tripData' = stored
    /\ LET r == FinalBalances(stored)
       IN  IF r.ok
           THEN /\ members' = r.summary
                /\ memberSummary' = r.summary
                /\ debtors' = DebtorsOf(r.summary)
                /\ creditors' = CreditorsOf(r.summary)
                /\ settlementsLocal' = <<>>
                /\ pc' = "matching"
           ELSE /\ pc' = "threw"
                /\ UNCHANGED <<members, memberSummary, debtors, creditors,
                               settlementsLocal>>
    /\ UNCHANGED <<stored, settlements, dash, form, db, hook>>

\* one iteration of while (debtors.length > 0 && creditors.length > 0)
MatchStep ==
    /\ pc = "matching"
    /\ Len(debtors) > 0 /\ Len(creditors) > 0
    /\ LET debtor == debtors[1]
           creditor == creditors[1]
           amount == TransferAmount(debtor, creditor)
           debtorAfter == [debtor EXCEPT !.balance = @ + amount]
           creditorAfter == [creditor EXCEPT !.balance = @ - amount]
       IN  /\ settlementsLocal' = Append(settlementsLocal,
                  Transfer(debtor, creditor, amount))
           /\ debtors' = IF DebtorDone(debtorAfter) THEN Tail(debtors)
                         ELSE [debtors EXCEPT ![1] = debtorAfter]
           /\ creditors' = IF CreditorDone(creditorAfter) THEN Tail(creditors)
                           ELSE [creditors EXCEPT ![1] = creditorAfter]
           /\ members' = StoreBalance(
                             StoreBalance(members, debtor, debtorAfter.balance),
                             creditor, creditorAfter.balance)
           \* the memberSummary state, once set, is the members array itself
           /\ memberSummary' = IF memberSummary = members THEN members'
                                ELSE memberSummary
    /\ UNCHANGED <<stored, tripData, settlements, pc, dash, form, db, hook>>

\* the loop's test fails: setSettlements(settlements)
SetSettlements ==
    /\ pc = "matching"
    /\ ~(Len(debtors) > 0 /\ Len(creditors) > 0)
    /\ settlements' = settlementsLocal
    /\ pc' = "done"
    /\ UNCHANGED <<stored, tripData, members, memberSummary, debtors, creditors,
                   settlementsLocal, dash, form, db, hook>>

Next == MountWithoutTrip \/ CalculateFinalBalances \/ MatchStep \/ SetSettlements

Spec == Init /\ [][Next]_vars

-----------------------------------------------------------------------------
(* calculateOptimalSettlements on its own: any list of members with distinct *)
(* names, whatever their balances add up to.                                *)

\* balances: 1.00, 0.01 (the tolerance) and half of it, of either sign, and 0
BalanceValues == {-One, -10, -5, 0, 5, 10, One}

MemberWithBalance(i, b) ==
    [name |-> ToString(i),
     totalPaid |-> IF b > 0 THEN b ELSE 0,
     totalOwed |-> IF b < 0 THEN -b ELSE 0,
     balance |-> b]

MemberLists ==
    {[i \in 1..Len(bs) |-> MemberWithBalance(i, bs[i])] :
        bs \in SeqsUpTo(BalanceValues, MaxSettleMembers)}

InitSettle ==
    /\ stored = NoTrip
    /\ tripData = NoTrip
    /\ members \in MemberLists
    /\ memberSummary = <<>>
    /\ debtors = <<>>
    /\ creditors = <<>>
    /\ settlementsLocal = <<>>
    /\ settlements = <<>>
    /\ pc = "settle"
    /\ dash = NoDash
    /\ form = NoForm
    /\ db = NoDb
    /\ hook = NoHook

\* the call: the two filters and the empty settlements array
CalculateOptimalSettlements ==
    /\ pc = "settle"
    /\ debtors' = DebtorsOf(members)
    /\ creditors' = CreditorsOf(members)
    /\ settlementsLocal' = <<>>
    /\ pc' = "matching"
    /\ UNCHANGED <<stored, tripData, members, memberSummary, settlements, dash, form, db, hook>>

NextSettle == CalculateOptimalSettlements \/ MatchStep \/ SetSettlements

SpecSettle == InitSettle /\ [][NextSettle]_vars

-----------------------------------------------------------------------------
(* calculateOptimalSettlements on balances that are whole hundredths *)

\* -0.03, -0.01, 0, 0.01, 0.03 and 0.10
CentBalances == {Cents(k) : k \in {-3, -1, 0, 1, 3, 10}}

CentMemberLists ==
    {[i \in 1..Len(bs) |-> MemberWithBalance(i, bs[i])] :
        bs \in SeqsUpTo(CentBalances, MaxSettleMembers)}

InitSettleCents ==
    /\ stored = NoTrip
    /\ tripData = NoTrip
    /\ members \in CentMemberLists
    /\ memberSummary = <<>>
    /\ debtors = <<>>
    /\ creditors = <<>>
    /\ settlementsLocal = <<>>
    /\ settlements = <<>>
    /\ pc = "settle"
    /\ dash = NoDash
    /\ form = NoForm
    /\ db = NoDb
    /\ hook = NoHook

SpecSettleCents == InitSettleCents /\ [][NextSettle]_vars

-----------------------------------------------------------------------------
(* The Finalize page on trips whose expenses are shared equally by all the *)
(* members, in whole currency units: the trips of the worked scenarios.    *)

ScenarioNames == <<"Alice", "Bob", "Carol", "Dave">>

\* 40, 90, 100 and 120 currency units
ScenarioAmounts == {40 * One, 90 * One, 100 * One, 120 * One}

\* the trips of two or more members with every expense split among all of them
ScenarioTrips ==
    UNION {[members : {SubSeq(ScenarioNames, 1, n)},
            expenses : SeqsUpTo([amount : ScenarioAmounts,
                                 paidBy : {ScenarioNames[i] : i \in 1..n},
                                 splitAmong : {SubSeq(ScenarioNames, 1, n)}],
                                MaxScenarioExpenses)] :
           n \in 2..Len(ScenarioNames)}

InitScenario ==
    /\ stored \in ScenarioTrips \cup {NoTrip}
    /\ tripData = NoTrip
    /\ members = <<>>
    /\ memberSummary = <<>>
    /\ debtors = <<>>
    /\ creditors = <<>>
    /\ settlementsLocal = <<>>
    /\ settlements = <<>>
    /\ pc = "mount"
    /\ dash = NoDash
    /\ form = NoForm
    /\ db = NoDb
    /\ hook = NoHook

SpecScenario == InitScenario /\ [][Next]_vars

-----------------------------------------------------------------------------
(* What the Finalize page renders below the balances *)

PaymentsCard == "All debts settled with n payments!"

AllSettledCard == "All Settled! Everyone has paid their fair share. No payments needed!"

\* a faulty variant, `>=` for `>`: the payments card is shown for no payment
SettlementsCardFromZero(ss) == IF Len(ss) >= 0 THEN PaymentsCard ELSE AllSettledCard

\* {settlements.length > 0 && (... the transfers and "All debts settled with n
\* payments!")} {settlements.length === 0 && (... "All Settled!" ...)}
SettlementsCard(ss) == IF Len(ss) > 0 THEN PaymentsCard ELSE AllSettledCard

-----------------------------------------------------------------------------
(* The trip dashboard: calculateMemberSummary over the trip fetched from the *)
(* remote store.  The page exists in two versions; both are modelled.        *)

Users == <<"u1", "u2", "u3">>

UserSet == {Users[i] : i \in 1..Len(Users)}

NoHost == "undefined"

\* The value a DECIMAL(10,2) column keeps of the number x sent to it, as a
\* count of hundredths: x goes out as its decimal text, and the column rounds
\* the decimal to two places, half away from zero.
Decimal2(x) ==
    LET a == Abs(x)
        d == PlacesFrom(a, 0)
        n == NearestDecimal(a, d)
        hundredths == IF d <= 2 THEN n * Pow10(2 - d)
                      ELSE (2 * n + Pow10(d - 2)) \div (2 * Pow10(d - 2))
    IN  IF x >= 0 THEN hundredths ELSE -hundredths

\* the users of S in the order of Users
UserSelection(S) == LET Chosen(u) == u \in S IN SelectSeq(Users, Chosen)

\* the expense_splits rows, as fetched, of an expense shared equally by the
\* users of S: the column's hundredths read as numbers
SplitRows(amount, S) ==
    LET us == UserSelection(S)
    IN  [i \in 1..Len(us) |->
            [user_id |-> us[i], amount |-> Cents(Decimal2(Div(amount, Len(us))))]]

\* an expense as fetched; hasSplits is false when the row carries no `splits`
DashExpenses ==
    {[amount |-> One, paid_by |-> u, hasSplits |-> TRUE, splits |-> SplitRows(One, S)] :
        u \in UserSet, S \in (SUBSET UserSet) \ {{}}}
    \cup {[amount |-> One, paid_by |-> u, hasSplits |-> FALSE, splits |-> <<>>] :
            u \in UserSet}

\* trip_members rows, some of them without a profile
DashMembers ==
    {[i \in 1..Len(UserSelection(S)) |->
         [user_id |-> UserSelection(S)[i], hasDisplayName |-> UserSelection(S)[i] \in P]] :
        S \in SUBSET UserSet, P \in SUBSET UserSet}

InitDashboard ==
    /\ stored = NoTrip
    /\ tripData = NoTrip
    /\ members = <<>>
    /\ memberSummary = <<>>
    /\ debtors = <<>>
    /\ creditors = <<>>
    /\ settlementsLocal = <<>>
    /\ settlements = <<>>
    /\ pc = "dashboard"
    /\ dash \in [host_id : {NoHost, "u1"},
                 trip_members : DashMembers,
                 expenses : SeqsUpTo(DashExpenses, MaxDashExpenses),
                 memberSummary : {<<>>},
                 loaded : {"no"}]
    /\ form = NoForm
    /\ db = NoDb
    /\ hook = NoHook

EmptyTotals == [paid |-> 0, owed |-> 0]

\* members.forEach(member => { if (member.profiles?.display_name) summary[member.user_id] = zeros })
ProfileKeys(ms) == {ms[i].user_id : i \in {j \in 1..Len(ms) : ms[j].hasDisplayName}}

\* [tripData?.host_id, ...members.map(m => m.user_id)].filter(Boolean)
AllMemberIds(host, ms) ==
    (IF host = NoHost THEN {} ELSE {host}) \cup {ms[i].user_id : i \in 1..Len(ms)}

\* if (summary[expense.paid_by]) summary[expense.paid_by].paid += expense.amount
DashAddPaid(summary, e) ==
    IF e.paid_by \in DOMAIN summary
    THEN [summary EXCEPT ![e.paid_by].paid = @ + e.amount]
    ELSE summary

\* expense.splits.forEach(split => { if (summary[split.user_id]) ... owed += split.amount })
RECURSIVE DashAddOwed(_, _)
DashAddOwed(summary, splits) ==
    IF splits = <<>> THEN summary
    ELSE DashAddOwed(
             IF Head(splits).user_id \in DOMAIN summary
             THEN [summary EXCEPT ![Head(splits).user_id].owed = @ + Head(splits).amount]
             ELSE summary,
             Tail(splits))

\* the body of expenses.forEach
DashAddExpense(summary, e) ==
    LET paid == DashAddPaid(summary, e)
    IN  IF e.hasSplits THEN DashAddOwed(paid, e.splits) ELSE paid

RECURSIVE DashTotals(_, _)
DashTotals(summary, expenses) ==
    IF expenses = <<>> THEN summary
    ELSE DashTotals(DashAddExpense(summary, Head(expenses)), Tail(expenses))

\* calculateMemberSummary of the version that keys the summary by the members
\* that have a display name
CalculateMemberSummaryByProfile(expenses, ms) ==
    DashTotals([k \in ProfileKeys(ms) |-> EmptyTotals], expenses)

\* calculateMemberSummary of the version that keys the summary by the host id
\* of the page's tripData and every member
CalculateMemberSummaryByIds(host, expenses, ms) ==
    DashTotals([k \in AllMemberIds(host, ms) |-> EmptyTotals], expenses)

\* loadTripData of the first version, the trip fetched: setMemberSummary(summary)
LoadTripDataByProfile ==
    /\ pc = "dashboard"
    /\ dash.loaded = "no"
    /\ dash' = [dash EXCEPT
                   !.memberSummary =
                       CalculateMemberSummaryByProfile(dash.expenses, dash.trip_members),
                   !.loaded = "by profile"]
    /\ UNCHANGED finalizeVars
    /\ UNCHANGED <<form, db, hook>>

\* loadTripData of the second version, the trip fetched or passed: setMemberSummary(summary)
LoadTripDataByIds ==
    /\ pc = "dashboard"
    /\ dash.loaded = "no"
    /\ dash' = [dash EXCEPT
                   !.memberSummary =
                       CalculateMemberSummaryByIds(dash.host_id, dash.expenses,
                                                   dash.trip_members),
                   !.loaded = "by ids"]
    /\ UNCHANGED finalizeVars
    /\ UNCHANGED <<form, db, hook>>

NextDashboard == LoadTripDataByProfile \/ LoadTripDataByIds

SpecDashboard == InitDashboard /\ [][NextDashboard]_vars

-----------------------------------------------------------------------------
(* The AddExpense page and addExpense of the useTrips hook.  A text is the *)
(* sequence of its characters.                                              *)

\* "0" .. "9"
Digits == <<"0", "1", "2", "3", "4", "5", "6", "7", "8", "9">>

IsDigit(c) == \E i \in 1..Len(Digits) : Digits[i] = c

DigitValue(c) == (CHOOSE i \in 1..Len(Digits) : Digits[i] = c) - 1

RECURSIVE TrimStart(_)
TrimStart(text) ==
    IF text # <<>> /\ Head(text) = " " THEN TrimStart(Tail(text)) ELSE text

RECURSIVE TrimEnd(_)
TrimEnd(text) ==
    IF text # <<>> /\ text[Len(text)] = " "
    THEN TrimEnd(SubSeq(text, 1, Len(text) - 1))
    ELSE text

\* text.trim()
Trim(text) == TrimEnd(TrimStart(text))

\* the longest prefix of text made of digits
RECURSIVE LeadingDigits(_)
LeadingDigits(text) ==
    IF text # <<>> /\ IsDigit(Head(text))
    THEN <<Head(text)>> \o LeadingDigits(Tail(text))
    ELSE <<>>

\* the number written by a sequence of digits
RECURSIVE DigitsValue(_)
DigitsValue(ds) ==
    IF ds = <<>> THEN 0
    ELSE 10 * DigitsValue(SubSeq(ds, 1, Len(ds) - 1)) + DigitValue(ds[Len(ds)])

\* the thousandths written by the digits after the point, the fourth digit
\* rounding the third
FractionValue(ds) ==
    LET d(i) == IF i <= Len(ds) THEN DigitValue(ds[i]) ELSE 0
    IN  100 * d(1) + 10 * d(2) + d(3) + (IF d(4) >= 5 THEN 1 ELSE 0)

NaN == [nan |-> TRUE, value |-> 0]

Number(v) == [nan |-> FALSE, value |-> v]

\* parseFloat(text) for texts of spaces, a sign, digits and a point: leading
\* spaces are skipped, then the longest prefix that reads as a decimal number
\* is taken and the rest ignored; NaN when there is no such prefix.
ParseFloat(text) ==
    LET s == TrimStart(text)
        signed == s # <<>> /\ Head(s) \in {"-", "+"}
        unsigned == IF signed THEN Tail(s) ELSE s
        int == LeadingDigits(unsigned)
        rest == SubSeq(unsigned, Len(int) + 1, Len(unsigned))
        frac == IF rest # <<>> /\ Head(rest) = "." THEN LeadingDigits(Tail(rest))
                ELSE <<>>
        v == FromDecimal(1000 * DigitsValue(int) + FractionValue(frac), 3)
    IN  IF int = <<>> /\ frac = <<>> THEN NaN
        ELSE Number(IF signed /\ Head(s) = "-" THEN -v ELSE v)

\* a faulty variant without the test for a positive amount
AmountInvalidNaNOnly(amount) == amount.nan

\* isNaN(amount) || amount <= 0
AmountInvalid(amount) == amount.nan \/ amount.value <= 0

\* The texts typed into the name field and into the amount field (a number
\* input hands over the empty text or the text of a number).
NameTexts == {<<>>, <<" ">>, <<"D">>}

AmountTexts == {<<>>, <<"0">>, <<"-", "5">>, <<"1", "0">>, <<"0", ".", "0", "1">>}

\* The signed-in user, and the trip as get_trip_details hands it over: its id,
\* its host and its trip_members rows.
FormUsers == {"u1", "u2"}

HostRow == [user_id |-> "u1", status |-> "approved", hasProfile |-> TRUE]

FormMemberLists ==
    {<<>>, <<HostRow>>}
    \cup {<<HostRow, [user_id |-> "u2", status |-> st, hasProfile |-> TRUE]>> :
             st \in {"approved", "pending"}}

FormTrips == [id : {"t1"}, host_id : {"u1"}, members : FormMemberLists]

NoCall == [none |-> TRUE]

\* the page mounted and its effect started: getTripByCode is in flight, so the
\* page's loading flag and the hook's are both up
InitAddExpense ==
    /\ stored = NoTrip
    /\ tripData = NoTrip
    /\ members = <<>>
    /\ memberSummary = <<>>
    /\ debtors = <<>>
    /\ creditors = <<>>
    /\ settlementsLocal = <<>>
    /\ settlements = <<>>
    /\ pc = "add expense"
    /\ dash = NoDash
    /\ form \in [user : FormUsers,
                 tripData : {NoTrip},
                 expenseName : {<<>>},
                 expenseAmount : {<<>>},
                 paidBy : {""},
                 splitAmong : {<<>>},
                 loading : {TRUE},
                 submitLoading : {TRUE},
                 call : {NoCall},
                 toast : {""},
                 at : {"loading"}]
    /\ db \in [trip : FormTrips, expenses : {<<>>}, expense_splits : {<<>>}]
    /\ hook = NoHook

\* "Users can view trips they are members of": the host and the members with
\* status 'approved'
TripVisible(user, trip) ==
    \/ user = trip.host_id
    \/ \E k \in 1..Len(trip.members) :
          trip.members[k].user_id = user /\ trip.members[k].status = "approved"

\* loadTripData, the trip fetched: setTripData, setPaidBy(user.id), and the
\* two loading flags down
LoadTripDataDone ==
    /\ form # NoForm /\ form.at = "loading"
    /\ TripVisible(form.user, db.trip)
    /\ form' = [form EXCEPT !.tripData = db.trip,
                            !.paidBy = form.user,
                            !.loading = FALSE,
                            !.submitLoading = FALSE,
                            !.at = "form"]
    /\ UNCHANGED <<finalizeVars, dash, db, hook>>

\* loadTripData, getTripByCode threw: the toast and navigate('/')
LoadTripDataFailed ==
    /\ form # NoForm /\ form.at = "loading"
    /\ form' = [form EXCEPT !.toast = "Trip Not Found",
                            !.loading = FALSE,
                            !.submitLoading = FALSE,
                            !.at = "home"]
    /\ UNCHANGED <<finalizeVars, dash, db, hook>>

\* a faulty variant without the test of the status
GetAllMembersAnyStatus(trip) ==
    LET Listed(m) == m.hasProfile
        listed == SelectSeq(trip.members, Listed)
    IN  <<trip.host_id>> \o [i \in 1..Len(listed) |-> listed[i].user_id]

\* getAllMembers: the host, then the approved members that have a profile
GetAllMembers(trip) ==
    LET Listed(m) == m.status = "approved" /\ m.hasProfile
        listed == SelectSeq(trip.members, Listed)
    IN  <<trip.host_id>> \o [i \in 1..Len(listed) |-> listed[i].user_id]

\* the form is on screen: not loading, and tripData set
Rendered == form # NoForm /\ form.at = "form" /\ ~form.loading /\ form.tripData # NoTrip

SetExpenseName ==
    /\ Rendered
    /\ \E text \in NameTexts : form' = [form EXCEPT !.expenseName = text]
    /\ UNCHANGED <<finalizeVars, dash, db, hook>>

SetExpenseAmount ==
    /\ Rendered
    /\ \E text \in AmountTexts : form' = [form EXCEPT !.expenseAmount = text]
    /\ UNCHANGED <<finalizeVars, dash, db, hook>>

\* a radio button of "Who Paid?"
SetPaidBy ==
    /\ Rendered
    /\ \E u \in Range(GetAllMembers(form.tripData)) :
          form' = [form EXCEPT !.paidBy = u]
    /\ UNCHANGED <<finalizeVars, dash, db, hook>>

\* handleMemberToggle(userId, checked)
Toggled(prev, userId, checked) ==
    IF checked THEN Append(prev, userId)
    ELSE LET Other(id) == id # userId IN SelectSeq(prev, Other)

\* a checkbox of "Split Among": it hands over the opposite of what it shows
HandleMemberToggle ==
    /\ Rendered
    /\ \E u \in Range(GetAllMembers(form.tripData)) :
          form' = [form EXCEPT !.splitAmong =
                       Toggled(@, u, u \notin Range(form.splitAmong))]
    /\ UNCHANGED <<finalizeVars, dash, db, hook>>

\* disabled={!expenseName.trim() || !expenseAmount || !paidBy ||
\*           splitAmong.length === 0 || submitLoading}
SubmitDisabled ==
    \/ Trim(form.expenseName) = <<>>
    \/ form.expenseAmount = <<>>
    \/ form.paidBy = ""
    \/ Len(form.splitAmong) = 0
    \/ form.submitLoading

\* the toast of the first test of handleSubmit that fails, "" when none does
Rejection(f) ==
    IF Trim(f.expenseName) = <<>> THEN "Missing Information: name"
    ELSE IF AmountInvalid(ParseFloat(f.expenseAmount)) THEN "Invalid Amount"
    ELSE IF f.paidBy = "" THEN "Missing Information: payer"
    ELSE IF Len(f.splitAmong) = 0 THEN "Missing Information: split"
    ELSE IF f.tripData = NoTrip THEN "no trip"
    ELSE ""

\* the argument of addExpense
ExpenseData(f) ==
    [name |-> f.expenseName,
     amount |-> ParseFloat(f.expenseAmount).value,
     paidBy |-> f.paidBy,
     splitAmong |-> f.splitAmong,
     tripId |-> f.tripData.id]

\* a press of the Add Expense button: handleSubmit up to the first await of
\* addExpense (setLoading(true) and the insert into expenses sent)
HandleSubmit ==
    /\ Rendered
    /\ ~SubmitDisabled
    /\ Len(db.expenses) < MaxStoredExpenses
    /\ LET why == Rejection(form)
       IN  IF why = "no trip" THEN UNCHANGED form
           ELSE IF why # "" THEN form' = [form EXCEPT !.toast = why]
           ELSE form' = [form EXCEPT !.call = ExpenseData(form),
                                     !.submitLoading = TRUE,
                                     !.toast = "",
                                     !.at = "inserting expense"]
    /\ UNCHANGED <<finalizeVars, dash, db, hook>>

\* the expenses row of an expense: its amount as DECIMAL(10,2) keeps it, in
\* hundredths
ExpenseRow(id, expenseData, user) ==
    [id |-> id,
     name |-> expenseData.name,
     amount |-> Decimal2(expenseData.amount),
     paid_by |-> expenseData.paidBy,
     trip_id |-> expenseData.tripId,
     created_by |-> user]

\* splitAmount = amount / splitAmong.length; splitAmong.map(userId => ({...})),
\* each row's amount as DECIMAL(10,2) keeps it, in hundredths
SplitsOf(id, expenseData) ==
    LET splitAmount == Div(expenseData.amount, Len(expenseData.splitAmong))
    IN  [i \in 1..Len(expenseData.splitAmong) |->
            [expense_id |-> id,
             user_id |-> expenseData.splitAmong[i],
             amount |-> Decimal2(splitAmount)]]

\* the insert into expenses succeeded; the insert into expense_splits is sent
InsertExpenseDone ==
    /\ form # NoForm /\ form.at = "inserting expense"
    /\ db' = [db EXCEPT !.expenses =
                  Append(@, ExpenseRow(Len(@) + 1, form.call, form.user))]
    /\ form' = [form EXCEPT !.at = "inserting splits"]
    /\ UNCHANGED <<finalizeVars, dash, hook>>

\* the insert into expenses failed: the hook's toast, setLoading(false), and
\* handleSubmit swallows the error
InsertExpenseFailed ==
    /\ form # NoForm /\ form.at = "inserting expense"
    /\ form' = [form EXCEPT !.call = NoCall,
                            !.submitLoading = FALSE,
                            !.toast = "Error adding expense",
                            !.at = "form"]
    /\ UNCHANGED <<finalizeVars, dash, db, hook>>

\* the insert into expense_splits succeeded: setLoading(false), the page's
\* toast and navigate(`/trip/${tripCode}`)
InsertSplitsDone ==
    /\ form # NoForm /\ form.at = "inserting splits"
    /\ db' = [db EXCEPT !.expense_splits =
                  @ \o SplitsOf(Len(db.expenses), form.call)]
    /\ form' = [form EXCEPT !.call = NoCall,
                            !.submitLoading = FALSE,
                            !.toast = "Expense Added!",
                            !.at = "trip"]
    /\ UNCHANGED <<finalizeVars, dash, hook>>

\* the insert into expense_splits failed: the expenses row stays
InsertSplitsFailed ==
    /\ form # NoForm /\ form.at = "inserting splits"
    /\ form' = [form EXCEPT !.call = NoCall,
                            !.submitLoading = FALSE,
                            !.toast = "Error adding expense",
                            !.at = "form"]
    /\ UNCHANGED <<finalizeVars, dash, db, hook>>

NextAddExpense ==
    \/ LoadTripDataDone \/ LoadTripDataFailed
    \/ SetExpenseName \/ SetExpenseAmount \/ SetPaidBy \/ HandleMemberToggle
    \/ HandleSubmit
    \/ InsertExpenseDone \/ InsertExpenseFailed
    \/ InsertSplitsDone \/ InsertSplitsFailed

SpecAddExpense == InitAddExpense /\ [][NextAddExpense]_vars

-----------------------------------------------------------------------------
(* What the claims speak of *)

BalancesOf(ms) == [i \in 1..Len(ms) |-> ms[i].balance]

ZeroSum(ms) == SumSeq(BalancesOf(ms)) = 0

\* the balances of the stored trip have been computed
BalancesComputed == pc \in {"matching", "done"} /\ tripData # NoTrip

\* every payer and every split entry is a member
ReferencesMembers(d) ==
    \A k \in 1..Len(d.expenses) :
        /\ d.expenses[k].paidBy \in Range(d.members)
        /\ Range(d.expenses[k].splitAmong) \subseteq Range(d.members)

NonEmptySplits(d) ==
    \A k \in 1..Len(d.expenses) : d.expenses[k].splitAmong # <<>>

SplitEntries(d) == SumSeq([k \in 1..Len(d.expenses) |-> Len(d.expenses[k].splitAmong)])

\* the sum of the amounts of the expenses m paid
PaidBy(m, d) ==
    SumSeq([k \in 1..Len(d.expenses) |->
                IF d.expenses[k].paidBy = m THEN d.expenses[k].amount ELSE 0])

\* the sum of m's shares over the expenses whose split contains m
OwedBy(m, d) ==
    SumSeq([k \in 1..Len(d.expenses) |->
                IF m \in Range(d.expenses[k].splitAmong)
                THEN Div(d.expenses[k].amount, Len(d.expenses[k].splitAmong))
                ELSE 0])

Received(m, ts) ==
    SumSeq([k \in 1..Len(ts) |-> IF ts[k].to = m THEN ts[k].amount ELSE 0])

Sent(m, ts) ==
    SumSeq([k \in 1..Len(ts) |-> IF ts[k].from = m THEN ts[k].amount ELSE 0])

NonZeroMembers(ms) == {i \in 1..Len(ms) : ms[i].balance # 0}

SumOver(ms, S) == SumSeq([i \in 1..Len(ms) |-> IF i \in S THEN ms[i].balance ELSE 0])

\* The largest number of blocks in a partition of S into non-empty sets of
\* members whose balances add up to zero.  Settling a block of k members takes
\* k - 1 transfers and no fewer, so the fewest transfers that bring every
\* balance to zero are Cardinality(NonZeroMembers) - MaxZeroBlocks.
RECURSIVE MaxZeroBlocks(_, _)
MaxZeroBlocks(ms, S) ==
    IF S = {} THEN 0
    ELSE LET x == CHOOSE y \in S : \A z \in S : y <= z
             blocks == {T \cup {x} : T \in SUBSET (S \ {x})}
             zero == {B \in blocks : SumOver(ms, B) = 0}
             counts == {1 + MaxZeroBlocks(ms, S \ B) : B \in zero}
         IN  CHOOSE c \in counts : \A e \in counts : e <= c

MinTransfers(ms) ==
    Cardinality(NonZeroMembers(ms)) - MaxZeroBlocks(ms, NonZeroMembers(ms))

-----------------------------------------------------------------------------
(* C1 *)

-----------------------------------------------------------------------------
(* C7 *)

\* C7: for a stored trip whose expenses name only members, every member m of
\* the trip has totalPaid = the sum of the amounts of the expenses m paid,
\* totalOwed = the sum of m's shares over the expenses whose split contains m,
\* and balance = totalPaid - totalOwed; the summary lists the members in order.
C7_BalanceDefinition ==
    (BalancesComputed /\ ReferencesMembers(tripData))
        => /\ Len(memberSummary) = Len(tripData.members)
           /\ \A i \in 1..Len(memberSummary) :
                LET m == tripData.members[i]
                IN  /\ memberSummary[i].name = m
                    /\ memberSummary[i].totalPaid = PaidBy(m, tripData)
                    /\ memberSummary[i].totalOwed = OwedBy(m, tripData)
                    /\ memberSummary[i].balance =
                           memberSummary[i].totalPaid - memberSummary[i].totalOwed

\* a member paid two expenses and owes a share of both; another only owes
C7_Witness ==
    /\ pc = "done"
    /\ tripData # NoTrip
    /\ Len(tripData.expenses) = 2
    /\ \E i, j \in 1..Len(memberSummary) :
          /\ i # j
          /\ memberSummary[i].totalPaid = 2 * One
          /\ memberSummary[i].totalOwed > 0
          /\ memberSummary[i].balance > 0
          /\ memberSummary[j].totalPaid = 0
          /\ memberSummary[j].balance < 0

-----------------------------------------------------------------------------
(* C8 *)

\* every participant of the expense is a key of the summary
FullyKnown(e, keys) ==
    /\ e.paid_by \in keys
    /\ e.hasSplits => \A k \in 1..Len(e.splits) : e.splits[k].user_id \in keys

DashPaid(u, es) ==
    SumSeq([k \in 1..Len(es) |-> IF es[k].paid_by = u THEN es[k].amount ELSE 0])

DashOwedIn(u, e) ==
    IF ~e.hasSplits THEN 0
    ELSE SumSeq([k \in 1..Len(e.splits) |->
                    IF e.splits[k].user_id = u THEN e.splits[k].amount ELSE 0])

DashOwed(u, es) == SumSeq([k \in 1..Len(es) |-> DashOwedIn(u, es[k])])

\* C8 as stated: the dashboard reports no error, so an expense with a payer
\* or a split user that is no key of the summary must be left out of the
\* totals entirely: the totals are those of the fully known expenses alone.
C8_UnknownReferenceLeftOut ==
    dash # NoDash /\ dash.loaded # "no"
        => LET keys == DOMAIN dash.memberSummary
               IsKnown(e) == FullyKnown(e, keys)
               known == SelectSeq(dash.expenses, IsKnown)
           IN  \A u \in keys :
                  /\ dash.memberSummary[u].paid = DashPaid(u, known)
                  /\ dash.memberSummary[u].owed = DashOwed(u, known)

-----------------------------------------------------------------------------
(* C9 *)

Malformed(d) ==
    \E k \in 1..Len(d.expenses) :
        d.expenses[k].splitAmong = <<>> \/ d.expenses[k].amount <= 0

\* C9 as stated: given an expense with an empty splitAmong or a non-positive
\* amount, calculateFinalBalances ends in an error and yields no balances.
C9_MalformedRejected ==
    (tripData # NoTrip /\ Malformed(tripData)) => pc \notin {"matching", "done"}

-----------------------------------------------------------------------------
(* C2 *)

\* C2 as stated: for balances that add up to zero, once the settlement is set,
\* every member's received minus sent differs from the member's balance by
\* less than 0.01.
C2_SettlementCorrect ==
    (pc = "done" /\ ZeroSum(members))
        => \A i \in 1..Len(members) :
              Abs(Received(members[i].name, settlements)
                  - Sent(members[i].name, settlements)
                  - members[i].balance) < Tolerance

-----------------------------------------------------------------------------
(* C3 *)

\* C3 as stated: for balances that add up to zero the number of transfers is
\* the fewest that bring every balance to zero.
C3_Minimal ==
    (pc = "done" /\ ZeroSum(members))
        => Len(settlements) = MinTransfers(members)

\* C3 amended: for balances that add up to zero and are not all zero, the
\* number of transfers is at most the number of members with a non-zero
\* balance, less one; it need not be the fewest possible.
C3_TransferCountBounded ==
    (pc = "done" /\ ZeroSum(members) /\ NonZeroMembers(members) # {})
        => Len(settlements) <= Cardinality(NonZeroMembers(members)) - 1

\* a zero-sum list settled with one transfer more than the fewest
C3_Witness ==
    /\ pc = "done"
    /\ ZeroSum(members)
    /\ Len(settlements) = 3
    /\ MinTransfers(members) = 2

-----------------------------------------------------------------------------
(* C4 *)

\* C4: every transfer emitted has an amount strictly greater than zero,
\* whether or not the balances add up to zero.
C4_PositiveAmounts ==
    /\ \A k \in 1..Len(settlementsLocal) : settlementsLocal[k].amount > 0
    /\ \A k \in 1..Len(settlements) : settlements[k].amount > 0

\* balances that do not add up to zero, settled with at least two transfers
C4_Witness ==
    /\ pc = "done"
    /\ ~ZeroSum(members)
    /\ Len(settlements) >= 2

-----------------------------------------------------------------------------
(* C5 *)

DistinctNames(ms) ==
    \A i, j \in 1..Len(ms) : ms[i].name = ms[j].name => i = j

\* C5: for members with distinct names, no transfer has from equal to to.
C5_NoSelfTransfer ==
    DistinctNames(members)
        => /\ \A k \in 1..Len(settlementsLocal) :
                 settlementsLocal[k].from # settlementsLocal[k].to
           /\ \A k \in 1..Len(settlements) : settlements[k].from # settlements[k].to

\* a settlement in which one member pays two others and another is paid twice
C5_Witness ==
    /\ pc = "done"
    /\ DistinctNames(members)
    /\ \E a, b, c \in 1..Len(settlements) :
          /\ a # b
          /\ settlements[a].from = settlements[b].from
          /\ settlements[a].to # settlements[b].to
          /\ c # b
          /\ settlements[c].to = settlements[b].to
          /\ settlements[c].from # settlements[b].from

-----------------------------------------------------------------------------
(* C6 *)

\* C6: every iteration of the matching loop removes at least one entry from
\* debtors or creditors, for any balances, so the loop ends.
C6_IterationShrinks ==
    [][MatchStep =>
          Len(debtors') + Len(creditors') < Len(debtors) + Len(creditors)]_vars

\* after an iteration on balances that do not add up to zero, both lists are
\* still non-empty and the first debtor is partly paid
C6_Witness ==
    /\ pc = "matching"
    /\ ~ZeroSum(members)
    /\ Len(settlementsLocal) >= 1
    /\ Len(debtors) > 0 /\ Len(creditors) > 0
    /\ \E i \in 1..Len(members) :
          /\ members[i].name = debtors[1].name
          /\ members[i].balance < debtors[1].balance

-----------------------------------------------------------------------------
(* C10 *)

\* C10 as stated: a member whose balance is within 0.01 of zero is neither
\* from nor to of any transfer.
C10_WithinToleranceUntouched ==
    pc = "done"
        => \A i \in 1..Len(members) :
              Abs(members[i].balance) < Tolerance
                  => \A k \in 1..Len(settlements) :
                        /\ settlements[k].from # members[i].name
                        /\ settlements[k].to # members[i].name

-----------------------------------------------------------------------------
(* C11 *)

\* C11 as stated: when the balances are off zero by 0.01 or more and the loop
\* has ended with a debtor or a creditor left, the page shows something other
\* than its two messages that say the debts are settled.
C11_ResidualSurfaced ==
    (/\ pc = "done"
     /\ Abs(SumSeq(BalancesOf(members))) >= Tolerance
     /\ (Len(debtors) > 0 \/ Len(creditors) > 0))
        => SettlementsCard(settlements) \notin {PaymentsCard, AllSettledCard}

-----------------------------------------------------------------------------
(* C13 *)

\* C13: the steps of calculateOptimalSettlements leave every member object
\* they were given as it was, and calculateFinalBalances leaves the stored
\* snapshot as it was and takes tripData from it; so at every point after the
\* balances are computed, memberSummary holds the balances computed from the
\* snapshot, before any transfer.
C13_SideEffectFree ==
    /\ [][((MatchStep \/ SetSettlements) =>
               (members' = members /\ memberSummary' = memberSummary))
          /\ (CalculateFinalBalances =>
                 (stored' = stored /\ tripData' = stored))]_vars
    /\ [](BalancesComputed =>
             /\ tripData = stored
             /\ memberSummary = FinalBalances(stored).summary
             /\ members = memberSummary)

\* the settlement is set with two transfers, and the page's memberSummary still
\* shows a debtor and a creditor with the balances they had before
C13_Witness ==
    /\ pc = "done"
    /\ tripData # NoTrip
    /\ Len(settlements) = 2
    /\ debtors = <<>> /\ creditors = <<>>
    /\ \E i, j \in 1..Len(memberSummary) :
          memberSummary[i].balance < 0 /\ memberSummary[j].balance > 0

-----------------------------------------------------------------------------
(* C14 *)

\* one expense of a positive whole number of currency units, paid by a member
\* and split among all the n >= 2 members, the amount divisible by n
SinglePayer(d) ==
    /\ Len(d.members) >= 2
    /\ Len(d.expenses) = 1
    /\ d.expenses[1].splitAmong = d.members
    /\ d.expenses[1].paidBy \in Range(d.members)
    /\ d.expenses[1].amount > 0
    /\ d.expenses[1].amount % (One * Len(d.members)) = 0

-----------------------------------------------------------------------------
(* C15 *)

\* two members, and every expense a positive whole number of currency units
\* paid by one of the two and split between both
TwoMembers(d) ==
    /\ Len(d.members) = 2
    /\ d.members[1] # d.members[2]
    /\ \A k \in 1..Len(d.expenses) :
          /\ d.expenses[k].splitAmong = d.members
          /\ d.expenses[k].paidBy \in Range(d.members)
          /\ d.expenses[k].amount > 0
          /\ d.expenses[k].amount % One = 0

-----------------------------------------------------------------------------
(* C16 *)

AllZero(ms) == \A i \in 1..Len(ms) : ms[i].balance = 0

\* C16: when every member's computed balance is exactly zero, the loop makes
\* no transfer, the settlement set is the empty list, and the page shows its
\* "All Settled!" card.
C16_AllZeroNoTransfers ==
    (BalancesComputed /\ AllZero(memberSummary))
        => /\ settlementsLocal = <<>>
           /\ pc = "done" =>
                 /\ settlements = <<>>
                 /\ SettlementsCard(settlements) = AllSettledCard

\* two members, each having paid an expense of 40 shared by both: each paid
\* exactly their own share
C16_Witness ==
    /\ pc = "done"
    /\ tripData # NoTrip
    /\ Len(memberSummary) = 2
    /\ AllZero(memberSummary)
    /\ \A i \in 1..2 :
          memberSummary[i].totalPaid = 40 * One /\ memberSummary[i].totalOwed = 40 * One
    /\ settlements = <<>>

-----------------------------------------------------------------------------
(* C17 *)

\* the name is not blank, the amount reads as a number above 0, a payer is
\* chosen, at least one member shares, and the trip is loaded
ValidForm(f) ==
    /\ \E i \in 1..Len(f.expenseName) : f.expenseName[i] # " "
    /\ ~ParseFloat(f.expenseAmount).nan
    /\ ParseFloat(f.expenseAmount).value > 0
    /\ f.paidBy # ""
    /\ f.splitAmong # <<>>
    /\ f.tripData # NoTrip

ValidCall(c) ==
    /\ \E i \in 1..Len(c.name) : c.name[i] # " "
    /\ c.amount > 0
    /\ c.paidBy # ""
    /\ c.splitAmong # <<>>

\* what C17 asks of every step
ValidSubmitStep ==
    /\ (form.call = NoCall /\ form'.call # NoCall)
          => (HandleSubmit /\ ValidForm(form)
                /\ form'.call.name = form.expenseName
                /\ form'.call.paidBy = form.paidBy
                /\ form'.call.splitAmong = form.splitAmong)
    /\ (HandleSubmit /\ ~ValidForm(form))
          => (db' = db /\ form'.call = NoCall /\ form'.at = "form")
    /\ (db' # db) => (form.call # NoCall /\ ValidCall(form.call))

\* C17: whatever the edits and presses, handleSubmit calls addExpense only
\* from a valid form, and with the form's values; a press on any other form
\* leaves the store as it is and makes no call; and the store changes only
\* while a call made from a valid form is running.
C17_OnlyValidSubmitted ==
    /\ [][ValidSubmitStep]_vars
    /\ [](form.call # NoCall => ValidCall(form.call))

\* a press with the amount 0 on an otherwise complete form was turned down:
\* the toast is up and nothing is stored
C17_Witness ==
    /\ form.at = "form"
    /\ form.toast = "Invalid Amount"
    /\ form.expenseAmount = <<"0">>
    /\ form.expenseName = <<"D">>
    /\ Len(form.splitAmong) = 2
    /\ form.call = NoCall
    /\ db.expenses = <<>> /\ db.expense_splits = <<>>

-----------------------------------------------------------------------------
(* C18 *)

\* the expense_splits rows stored for the expense with this id
StoredSplits(id) == LET Of(r) == r.expense_id = id IN SelectSeq(db.expense_splits, Of)

\* C18 as stated: every stored expense whose split rows are stored has split
\* amounts, as stored, that add up to exactly the stored expense amount (the
\* amounts typed are whole numbers of cents).
C18_StoredSplitsSum ==
    \A k \in 1..Len(db.expenses) :
        LET rows == StoredSplits(db.expenses[k].id)
        IN  rows # <<>>
               => SumSeq([i \in 1..Len(rows) |-> rows[i].amount])
                      = db.expenses[k].amount

-----------------------------------------------------------------------------
(* C19 *)

\* the number b stands for a whole count of hundredths
IsCents(b) == \E k \in -Abs(b)..Abs(b) : Cents(k) = b

CentsOf(b) == CHOOSE k \in -Abs(b)..Abs(b) : Cents(k) = b

\* every balance is a whole multiple of 0.01 and the multiples add up to zero
CentsZeroSum(ms) ==
    /\ \A i \in 1..Len(ms) : IsCents(ms[i].balance)
    /\ SumSeq([i \in 1..Len(ms) |-> CentsOf(ms[i].balance)]) = 0

\* the loop has ended with a debtor or a creditor left over
LeftOver == pc = "done" /\ (debtors # <<>> \/ creditors # <<>>)

\* C19 as stated: for balances that are whole multiples of 0.01 and add up to
\* zero, the loop ends with debtors and creditors both empty, and every
\* member's received minus sent is exactly the member's balance.
C19_BothEmptyExact ==
    (pc = "done" /\ CentsZeroSum(members))
        => /\ debtors = <<>>
           /\ creditors = <<>>
           /\ \A i \in 1..Len(members) :
                 Received(members[i].name, settlements)
                     - Sent(members[i].name, settlements) = members[i].balance

-----------------------------------------------------------------------------
(* C20 *)

\* the position in the members list of the member of this name
PositionOf(name) == CHOOSE i \in 1..Len(members) : members[i].name = name

\* the first k transfers
FirstTransfers(ts, k) == SubSeq(ts, 1, k)

\* Member i is through as a debtor before transfer k: it has paid and what is
\* left of its debt is below 0.01.  Likewise as a creditor.
DebtorThrough(i, ts, k) ==
    LET sent == Sent(members[i].name, FirstTransfers(ts, k - 1))
    IN  sent > 0 /\ Abs(members[i].balance + sent) < Tolerance

CreditorThrough(i, ts, k) ==
    LET received == Received(members[i].name, FirstTransfers(ts, k - 1))
    IN  received > 0 /\ members[i].balance - received < Tolerance

\* the earliest member with a negative balance that is not through, and the
\* earliest with a positive balance that is not through
EarliestDebtor(ts, k) ==
    LET open == {i \in 1..Len(members) :
                    members[i].balance < 0 /\ ~DebtorThrough(i, ts, k)}
    IN  CHOOSE i \in open : \A j \in open : i <= j

EarliestCreditor(ts, k) ==
    LET open == {i \in 1..Len(members) :
                    members[i].balance > 0 /\ ~CreditorThrough(i, ts, k)}
    IN  CHOOSE i \in open : \A j \in open : i <= j

InsertionOrder(ts) ==
    /\ \A k \in 1..Len(ts) :
          /\ PositionOf(ts[k].from) = EarliestDebtor(ts, k)
          /\ PositionOf(ts[k].to) = EarliestCreditor(ts, k)
    /\ \A k \in 1..(Len(ts) - 1) :
          /\ PositionOf(ts[k].from) <= PositionOf(ts[k + 1].from)
          /\ PositionOf(ts[k].to) <= PositionOf(ts[k + 1].to)

\* C20: for members with distinct names, every transfer goes from the
\* earliest debtor of the members list that is not yet through to the
\* earliest creditor that is not yet through, so the positions of the from
\* members, and of the to members, never decrease along the transfers; the
\* sizes of the balances play no part in the order.
C20_InsertionOrder ==
    DistinctNames(members)
        => InsertionOrder(settlementsLocal) /\ InsertionOrder(settlements)

\* the small debt ahead of the large one is matched first, against the small
\* credit ahead of the large one; a sort by size would start with the large
C20_Witness ==
    /\ pc = "done"
    /\ Len(members) = 4
    /\ BalancesOf(members) = <<-10, -One, 10, One>>
    /\ settlements = <<[from |-> "1", to |-> "3", amount |-> 10],
                       [from |-> "2", to |-> "4", amount |-> One]>>

-----------------------------------------------------------------------------
(* C21 *)

\* the transfer of one iteration, against the balances it began with
NoOverpaymentStep ==
    MatchStep =>
        LET amount == settlementsLocal'[Len(settlementsLocal')].amount
        IN  /\ debtors[1].balance + amount <= 0
            /\ creditors[1].balance - amount >= 0

\* the working balances keep their signs
WorkingSigns ==
    /\ \A i \in 1..Len(debtors) : debtors[i].balance <= 0
    /\ \A i \in 1..Len(creditors) : creditors[i].balance >= 0

\* C21: at every step of the matching loop the working balance of every
\* debtor is at most zero and that of every creditor is at least zero, and no
\* transfer pays a debtor past zero or takes a creditor below zero.
C21_NoOverpayment == [][NoOverpaymentStep]_vars /\ []WorkingSigns

\* in the loop, after a transfer that paid the first creditor in part: the
\* creditor is still first, with less than its member's balance and above zero
C21_Witness ==
    /\ pc = "matching"
    /\ Len(settlementsLocal) >= 1
    /\ Len(creditors) > 0
    /\ settlementsLocal[Len(settlementsLocal)].to = creditors[1].name
    /\ \E i \in 1..Len(members) :
          /\ members[i].name = creditors[1].name
          /\ creditors[1].balance > 0
          /\ creditors[1].balance < members[i].balance

-----------------------------------------------------------------------------
(* C22 *)

\* the member's original balance and what it has sent, less what it has
\* received, in the transfers ts
Conserved(name, ts) ==
    members[PositionOf(name)].balance + Sent(name, ts) - Received(name, ts)

\* the names of the working entries
Listed ==
    {debtors[i].name : i \in 1..Len(debtors)}
        \cup {creditors[i].name : i \in 1..Len(creditors)}

\* the working balance of member i: that of its entry while it is in a list,
\* and the last one written to it once it has been shifted out
WorkingBalance(i) ==
    LET name == members[i].name
    IN  IF \E k \in 1..Len(debtors) : debtors[k].name = name
        THEN debtors[CHOOSE k \in 1..Len(debtors) : debtors[k].name = name].balance
        ELSE IF \E k \in 1..Len(creditors) : creditors[k].name = name
        THEN creditors[CHOOSE k \in 1..Len(creditors) :
                           creditors[k].name = name].balance
        ELSE Conserved(name, settlementsLocal)

\* in the loop and after it: every entry of the two lists holds its member's
\* original balance plus sent less received; a member shifted out of its list
\* left it within 0.01 of zero; the working balances add up to the originals
ConservedInLoop ==
    pc \in {"matching", "done"}
        => /\ \A i \in 1..Len(debtors) :
                 debtors[i].balance = Conserved(debtors[i].name, settlementsLocal)
           /\ \A i \in 1..Len(creditors) :
                 creditors[i].balance
                     = Conserved(creditors[i].name, settlementsLocal)
           /\ \A i \in NonZeroMembers(members) :
                 members[i].name \notin Listed
                     => Abs(Conserved(members[i].name, settlementsLocal))
                            < Tolerance
           /\ SumSeq([i \in 1..Len(members) |-> WorkingBalance(i)])
                  = SumSeq(BalancesOf(members))

\* one iteration: the balances it writes to the first debtor and the first
\* creditor, shifted out afterwards or not
ConservedStep ==
    MatchStep =>
        LET amount == settlementsLocal'[Len(settlementsLocal')].amount
        IN  /\ debtors[1].balance + amount
                   = Conserved(debtors[1].name, settlementsLocal')
            /\ creditors[1].balance - amount
                   = Conserved(creditors[1].name, settlementsLocal')
            /\ Len(debtors') = Len(debtors)
                   => debtors'[1].balance = debtors[1].balance + amount
            /\ Len(creditors') = Len(creditors)
                   => creditors'[1].balance = creditors[1].balance - amount

-----------------------------------------------------------------------------
(* C23 *)

\* the members with a negative balance, and those with a positive one
Negative(ms) == {i \in 1..Len(ms) : ms[i].balance < 0}

Positive(ms) == {i \in 1..Len(ms) : ms[i].balance > 0}

\* C23: when at least one member has a negative balance and at least one a
\* positive balance, the transfers emitted, in the loop and at its end, are at
\* most the members with a negative balance plus those with a positive
\* balance, less one; whether or not the balances add up to zero.
C23_TransferCountBound ==
    (Negative(members) # {} /\ Positive(members) # {})
        => /\ Len(settlementsLocal)
                  <= Cardinality(Negative(members))
                         + Cardinality(Positive(members)) - 1
           /\ Len(settlements)
                  <= Cardinality(Negative(members))
                         + Cardinality(Positive(members)) - 1

\* balances that do not add up to zero, with a member at zero among them,
\* settled with exactly as many transfers as the bound allows, three or more
C23_Witness ==
    /\ pc = "done"
    /\ SumSeq(BalancesOf(members)) # 0
    /\ \E i \in 1..Len(members) : members[i].balance = 0
    /\ Cardinality(Negative(members)) >= 2
    /\ Cardinality(Positive(members)) >= 2
    /\ Len(settlements) >= 3
    /\ Len(settlements)
           = Cardinality(Negative(members)) + Cardinality(Positive(members)) - 1

-----------------------------------------------------------------------------
(* C24 *)

\* no call of addExpense is under way
NoCallUnderWay == form # NoForm /\ form.call = NoCall

\* C24 as stated: at every point after a call of addExpense has returned or
\* thrown, every row of expenses has at least one row of expense_splits; no
\* expense row without splits remains when the insert of the splits failed.
C24_AllOrNothing ==
    NoCallUnderWay
        => \A k \in 1..Len(db.expenses) : StoredSplits(db.expenses[k].id) # <<>>

-----------------------------------------------------------------------------
(* The useTrips hook against the remote store: createTrip, getTripByCode,  *)
(* joinTrip and addExpense of each signed-in user's instance, a call being *)
(* a sequence of requests that other calls' requests may come between.     *)

\* calls started, over all instances
MaxCalls == 3

\* the code Math.random() comes up with
TripCode == "ABC123"

NoLast == [none |-> TRUE]

\* useState(false), no call under way
NewInstance == [loading |-> FALSE, calls |-> <<>>, last |-> NoLast]

\* no trip yet; every user has the profiles row that signing up gave it
InitTrips ==
    /\ stored = NoTrip
    /\ tripData = NoTrip
    /\ members = <<>>
    /\ memberSummary = <<>>
    /\ debtors = <<>>
    /\ creditors = <<>>
    /\ settlementsLocal = <<>>
    /\ settlements = <<>>
    /\ pc = "trips"
    /\ dash = NoDash
    /\ form = NoForm
    /\ db = [trips |-> <<>>, profiles |-> FormUsers, trip_members |-> <<>>,
             expenses |-> <<>>, expense_splits |-> <<>>]
    /\ hook = [of |-> [u \in FormUsers |-> NewInstance], started |-> 0]

\* the sequence without its i-th element
Without(seq, i) == SubSeq(seq, 1, i - 1) \o SubSeq(seq, i + 1, Len(seq))

\* a faulty variant that leaves the flag as it is
SetLoadingKept(inst, value) == inst

\* setLoading(value)
SetLoading(inst, value) == [inst EXCEPT !.loading = value]

\* a call up to its first await: setLoading(true), the first request sent
Begin(u, kind, at, trip) ==
    /\ hook.started < MaxCalls
    /\ hook' = [hook EXCEPT
           !.of[u] = [SetLoading(@, TRUE) EXCEPT
                         !.calls = Append(@, [kind |-> kind, at |-> at,
                                              trip |-> trip, expense |-> 0])],
           !.started = @ + 1]

\* the call's next request is sent; the call keeps the id of the trip and of
\* the expense it has got so far
Goes(u, i, at, trip, expense) ==
    hook' = [hook EXCEPT !.of[u].calls[i] =
                [@ EXCEPT !.at = at, !.trip = trip, !.expense = expense]]

\* the call returns or throws: `finally { setLoading(false) }`
Ends(u, i, outcome, error) ==
    hook' = [hook EXCEPT
        !.of[u] = [SetLoading(@, FALSE) EXCEPT
                      !.calls = Without(@, i),
                      !.last = [outcome |-> outcome, error |-> error]]]

\* the call i of u's instance is of this kind and awaits this request
Awaits(u, i, kind, at) ==
    /\ hook # NoHook
    /\ i \in 1..Len(hook.of[u].calls)
    /\ hook.of[u].calls[i].kind = kind
    /\ hook.of[u].calls[i].at = at

TripOfCode(code) == {k \in 1..Len(db.trips) : db.trips[k].code = code}

MemberRows(trip_id, user_id) ==
    {k \in 1..Len(db.trip_members) :
        /\ db.trip_members[k].trip_id = trip_id
        /\ db.trip_members[k].user_id = user_id}

(* createTrip *)

CreateTripStart(u) ==
    /\ hook # NoHook
    /\ Begin(u, "createTrip", "insert trip", 0)
    /\ UNCHANGED <<finalizeVars, dash, form, db>>

\* the insert into trips: `code` is UNIQUE, and a request may fail
CreateTripInsertTrip(u, i) ==
    /\ Awaits(u, i, "createTrip", "insert trip")
    /\ \E answered \in BOOLEAN :
          IF answered /\ TripOfCode(TripCode) = {}
          THEN /\ db' = [db EXCEPT !.trips =
                            Append(@, [id |-> Len(@) + 1, code |-> TripCode,
                                       host_id |-> u])]
               /\ Goes(u, i, "upsert profile", Len(db.trips) + 1, 0)
          ELSE /\ Ends(u, i, "threw", IF answered THEN "23505" ELSE "failed")
               /\ UNCHANGED db
    /\ UNCHANGED <<finalizeVars, dash, form>>

\* the upsert into profiles, whose result is not looked at
CreateTripUpsertProfile(u, i) ==
    /\ Awaits(u, i, "createTrip", "upsert profile")
    /\ Goes(u, i, "insert member", hook.of[u].calls[i].trip, 0)
    /\ UNCHANGED <<finalizeVars, dash, form, db>>

\* the insert of the host into trip_members with status 'approved'
CreateTripInsertMember(u, i) ==
    /\ Awaits(u, i, "createTrip", "insert member")
    /\ \E answered \in BOOLEAN :
          IF answered
          THEN /\ db' = [db EXCEPT !.trip_members =
                            Append(@, [trip_id |-> hook.of[u].calls[i].trip,
                                       user_id |-> u, status |-> "approved"])]
               /\ Ends(u, i, "returned", "")
          ELSE /\ Ends(u, i, "threw", "failed")
               /\ UNCHANGED db
    /\ UNCHANGED <<finalizeVars, dash, form>>

(* getTripByCode *)

GetTripByCodeStart(u) ==
    /\ hook # NoHook
    /\ Begin(u, "getTripByCode", "rpc", 0)
    /\ UNCHANGED <<finalizeVars, dash, form, db>>

\* the answer of get_trip_details: the trip, or an error
GetTripByCodeAnswer(u, i) ==
    /\ Awaits(u, i, "getTripByCode", "rpc")
    /\ \E answered \in BOOLEAN :
          IF answered /\ TripOfCode(TripCode) # {}
          THEN Ends(u, i, "returned", "")
          ELSE Ends(u, i, "threw", "failed")
    /\ UNCHANGED <<finalizeVars, dash, form, db>>

(* joinTrip *)

JoinTripStart(u) ==
    /\ hook # NoHook
    /\ Begin(u, "joinTrip", "select trip", 0)
    /\ UNCHANGED <<finalizeVars, dash, form, db>>

\* .from('trips').select('id, host_id').eq('code', tripCode).single()
JoinTripSelectTrip(u, i) ==
    /\ Awaits(u, i, "joinTrip", "select trip")
    /\ \E answered \in BOOLEAN :
          IF answered /\ TripOfCode(TripCode) # {}
          THEN Goes(u, i, "upsert profile",
                    db.trips[CHOOSE k \in TripOfCode(TripCode) : TRUE].id, 0)
          ELSE Ends(u, i, "threw", "failed")
    /\ UNCHANGED <<finalizeVars, dash, form, db>>

\* the upsert into profiles; then `if (trip.host_id === user.id) return trip`
JoinTripUpsertProfile(u, i) ==
    /\ Awaits(u, i, "joinTrip", "upsert profile")
    /\ IF db.trips[hook.of[u].calls[i].trip].host_id = u
       THEN Ends(u, i, "returned", "")
       ELSE Goes(u, i, "insert member", hook.of[u].calls[i].trip, 0)
    /\ UNCHANGED <<finalizeVars, dash, form, db>>

\* a faulty variant that throws on every error
InsertErrorThrownAlways(error) == error # ""

\* if (memberError && memberError.code !== '23505') throw memberError
InsertErrorThrown(error) == error # "" /\ error # "23505"

\* the insert into trip_members, status left to its default 'pending';
\* UNIQUE(trip_id, user_id) answers a second row with the error 23505
JoinTripInsertMember(u, i) ==
    /\ Awaits(u, i, "joinTrip", "insert member")
    /\ \E answered \in BOOLEAN :
          LET trip == hook.of[u].calls[i].trip
              error == IF ~answered THEN "failed"
                       ELSE IF MemberRows(trip, u) # {} THEN "23505"
                       ELSE ""
          IN  /\ db' = IF error = ""
                       THEN [db EXCEPT !.trip_members =
                                Append(@, [trip_id |-> trip, user_id |-> u,
                                           status |-> "pending"])]
                       ELSE db
              /\ IF InsertErrorThrown(error) THEN Ends(u, i, "threw", error)
                 ELSE Ends(u, i, "returned", error)
    /\ UNCHANGED <<finalizeVars, dash, form>>

(* addExpense *)

\* what the AddExpense page of user u hands over for this trip
OwnExpense(u, trip) ==
    [name |-> <<"D">>, amount |-> One, paidBy |-> u, splitAmong |-> <<u>>,
     tripId |-> trip]

AddExpenseStart(u) ==
    /\ hook # NoHook
    /\ \E k \in 1..Len(db.trips) : Begin(u, "addExpense", "insert expense", k)
    /\ UNCHANGED <<finalizeVars, dash, form, db>>

AddExpenseInsertExpense(u, i) ==
    /\ Awaits(u, i, "addExpense", "insert expense")
    /\ \E answered \in BOOLEAN :
          IF answered
          THEN /\ db' = [db EXCEPT !.expenses =
                            Append(@, ExpenseRow(Len(@) + 1,
                                OwnExpense(u, hook.of[u].calls[i].trip), u))]
               /\ Goes(u, i, "insert splits", hook.of[u].calls[i].trip,
                       Len(db.expenses) + 1)
          ELSE /\ Ends(u, i, "threw", "failed")
               /\ UNCHANGED db
    /\ UNCHANGED <<finalizeVars, dash, form>>

\* the insert into expense_splits of the rows for expense.id
AddExpenseInsertSplits(u, i) ==
    /\ Awaits(u, i, "addExpense", "insert splits")
    /\ \E answered \in BOOLEAN :
          IF answered
          THEN /\ db' = [db EXCEPT !.expense_splits =
                            @ \o SplitsOf(hook.of[u].calls[i].expense,
                                   OwnExpense(u, hook.of[u].calls[i].trip))]
               /\ Ends(u, i, "returned", "")
          ELSE /\ Ends(u, i, "threw", "failed")
               /\ UNCHANGED db
    /\ UNCHANGED <<finalizeVars, dash, form>>

(* the host's answer to a join request *)

\* "Trip hosts can update member status": a pending row approved or denied
UpdateMemberStatus ==
    /\ hook # NoHook
    /\ \E k \in 1..Len(db.trip_members) :
          /\ db.trip_members[k].status = "pending"
          /\ \E status \in {"approved", "denied"} :
                db' = [db EXCEPT !.trip_members[k].status = status]
    /\ UNCHANGED <<finalizeVars, dash, form, hook>>

(* the dashboard's Finalize button *)

\* handleFinalize: navigate(`/trip/${tripCode}/finalize`); the Finalize page
\* mounts
HandleFinalize ==
    /\ hook # NoHook
    /\ pc = "trips"
    /\ TripOfCode(TripCode) # {}
    /\ pc' = "mount"
    /\ UNCHANGED <<stored, tripData, members, memberSummary, debtors, creditors,
                   settlementsLocal, settlements, dash, form, db, hook>>

NextTrips ==
    \/ \E u \in FormUsers :
          \/ CreateTripStart(u) \/ GetTripByCodeStart(u)
          \/ JoinTripStart(u) \/ AddExpenseStart(u)
          \/ \E i \in 1..MaxCalls :
                \/ CreateTripInsertTrip(u, i) \/ CreateTripUpsertProfile(u, i)
                \/ CreateTripInsertMember(u, i)
                \/ GetTripByCodeAnswer(u, i)
                \/ JoinTripSelectTrip(u, i) \/ JoinTripUpsertProfile(u, i)
                \/ JoinTripInsertMember(u, i)
                \/ AddExpenseInsertExpense(u, i) \/ AddExpenseInsertSplits(u, i)
    \/ UpdateMemberStatus
    \/ HandleFinalize
    \/ MountWithoutTrip

SpecTrips == InitTrips /\ [][NextTrips]_vars

\* a mounted page's effect runs
FairSpecTrips == SpecTrips /\ WF_vars(MountWithoutTrip)

-----------------------------------------------------------------------------
(* C25 *)

\* C25 as stated: in each useTrips instance, the loading flag is true whenever
\* a started call has not finished, and false once all started calls have.
C25_LoadingWhileCalls ==
    \A u \in FormUsers : hook.of[u].loading <=> (hook.of[u].calls # <<>>)

-----------------------------------------------------------------------------
(* C26 *)

\* the rows of trip_members for this trip and this user, as they are stored
RowsOf(store, trip_id, user_id) ==
    LET Of(r) == r.trip_id = trip_id /\ r.user_id = user_id
    IN  SelectSeq(store.trip_members, Of)

\* the call i of user u, who is not the host and has a row for the trip,
\* gets the store's answer to its insert into trip_members
JoinAgainStep(u, i) ==
    LET trip == hook.of[u].calls[i].trip
    IN  (/\ JoinTripInsertMember(u, i)
         /\ RowsOf(db, trip, u) # <<>>
         /\ hook'.of[u].last.error # "failed")
            => /\ hook'.of[u].last.outcome = "returned"
               /\ Len(RowsOf(db', trip, u)) = 1
               /\ RowsOf(db', trip, u) = RowsOf(db, trip, u)

JoinAgain == \A u \in FormUsers : \A i \in 1..MaxCalls : JoinAgainStep(u, i)

\* UNIQUE(trip_id, user_id)
OneRowEach ==
    \A k \in 1..Len(db.trips) : \A u \in FormUsers :
        Len(RowsOf(db, db.trips[k].id, u)) <= 1

-----------------------------------------------------------------------------
(* C27 *)

\* the trip as getTripByCode hands it over: the trips row with its
\* trip_members rows, each with its user's profile when there is one
TripDetails(trip) ==
    LET Of(r) == r.trip_id = trip.id
        rows == SelectSeq(db.trip_members, Of)
    IN  [id |-> trip.id,
         host_id |-> trip.host_id,
         members |-> [k \in 1..Len(rows) |->
                         [user_id |-> rows[k].user_id,
                          status |-> rows[k].status,
                          hasProfile |-> rows[k].user_id \in db.profiles]]]

NoRepeats(seq) == \A i, j \in 1..Len(seq) : seq[i] = seq[j] => i = j

\* C27 as stated: for every trip of the store, the list of getAllMembers on
\* the trip as fetched holds every user_id at most once.
C27_ListedOnce ==
    \A k \in 1..Len(db.trips) :
        NoRepeats(GetAllMembers(TripDetails(db.trips[k])))

-----------------------------------------------------------------------------
(* C30 *)

\* C30 as stated: once the Finalize page is opened from the dashboard of a
\* trip of the remote store, it comes to hold balances and settlements
\* computed from the trip, and it does not leave to the home route.
C30_FinalizeFromRemoteTrip ==
    /\ (pc = "mount") ~> (pc = "done" /\ tripData # NoTrip)
    /\ [](pc # "home")

-----------------------------------------------------------------------------
(* C28 *)

\* the host of the trip, or a member of it with status 'approved'
HostOrApproved(id, trip) ==
    \/ id = trip.host_id
    \/ \E k \in 1..Len(trip.members) :
          trip.members[k].user_id = id /\ trip.members[k].status = "approved"

-----------------------------------------------------------------------------
(* The AddExpense page from its mount on, left alone: its renders, its      *)
(* effect and the answers to getTripByCode.  useTrips makes getTripByCode   *)
(* anew at every render, and the effect lists it among its dependencies.    *)

\* requests awaiting their answer at one time
MaxInFlight == 2

\* the calls of getTripByCode are counted up to this many
MaxFetches == 4

\* the first render is committed: the page's loading is true, the hook's is
\* false, and the effect is due
InitLoadTrip ==
    /\ stored = NoTrip
    /\ tripData = NoTrip
    /\ members = <<>>
    /\ memberSummary = <<>>
    /\ debtors = <<>>
    /\ creditors = <<>>
    /\ settlementsLocal = <<>>
    /\ settlements = <<>>
    /\ pc = "load trip"
    /\ dash = NoDash
    /\ form \in [user : FormUsers,
                 tripData : {NoTrip},
                 paidBy : {""},
                 loading : {TRUE},
                 toast : {""},
                 renderDue : {FALSE},
                 effectDue : {TRUE},
                 at : {"page"}]
    /\ db \in [trip : FormTrips, expenses : {<<>>}, expense_splits : {<<>>}]
    /\ hook = [loading |-> FALSE, inFlight |-> 0, fetches |-> 0]

\* [tripCode, user, getTripByCode, toast, navigate] against the last render's:
\* getTripByCode is another function at every render
DependenciesChanged == TRUE

\* the page is mounted
Mounted == form # NoForm /\ pc = "load trip" /\ form.at = "page"

\* the effect: loadTripData() up to `await getTripByCode(tripCode)`, which
\* does setLoading(true) and sends the request
RunEffect ==
    /\ Mounted
    /\ form.effectDue
    /\ hook.inFlight < MaxInFlight
    /\ hook' = [loading |-> TRUE,
                inFlight |-> hook.inFlight + 1,
                fetches |-> Min(hook.fetches + 1, MaxFetches)]
    /\ form' = [form EXCEPT !.effectDue = FALSE,
                            !.renderDue = @ \/ ~hook.loading]
    /\ UNCHANGED <<finalizeVars, dash, db>>

\* a render after a change of state, the effects of the render before it
\* having run; its commit makes the effect due when a dependency has changed
Render ==
    /\ Mounted
    /\ form.renderDue
    /\ ~form.effectDue
    /\ form' = [form EXCEPT !.renderDue = FALSE,
                            !.effectDue = DependenciesChanged]
    /\ UNCHANGED <<finalizeVars, dash, db, hook>>

\* get_trip_details answers with the trip: the hook's setLoading(false), then
\* setTripData with a new object, setPaidBy(user.id) and setLoading(false)
AnswerTrip ==
    /\ Mounted
    /\ hook.inFlight > 0
    /\ TripVisible(form.user, db.trip)
    /\ hook' = [hook EXCEPT !.loading = FALSE, !.inFlight = @ - 1]
    /\ form' = [form EXCEPT !.tripData = db.trip,
                            !.paidBy = form.user,
                            !.loading = FALSE,
                            !.renderDue = TRUE]
    /\ UNCHANGED <<finalizeVars, dash, db>>

\* get_trip_details answers with an error: the hook's toast and
\* setLoading(false), then the page's toast, navigate('/') and
\* setLoading(false); the page is gone
AnswerError ==
    /\ Mounted
    /\ hook.inFlight > 0
    /\ ~TripVisible(form.user, db.trip)
    /\ hook' = [hook EXCEPT !.loading = FALSE, !.inFlight = @ - 1]
    /\ form' = [form EXCEPT !.toast = "Trip Not Found",
                            !.loading = FALSE,
                            !.renderDue = FALSE,
                            !.effectDue = FALSE,
                            !.at = "home"]
    /\ UNCHANGED <<finalizeVars, dash, db>>

\* an answer that comes when the page is gone changes nothing that is shown
AnswerUnmounted ==
    /\ form # NoForm /\ pc = "load trip" /\ form.at = "home"
    /\ hook.inFlight > 0
    /\ hook' = [hook EXCEPT !.inFlight = @ - 1]
    /\ UNCHANGED <<finalizeVars, dash, form, db>>

NextLoadTrip ==
    RunEffect \/ Render \/ AnswerTrip \/ AnswerError \/ AnswerUnmounted

SpecLoadTrip == InitLoadTrip /\ [][NextLoadTrip]_vars

\* React runs the effects that are due and the renders that are due, and the
\* backend answers every request
FairSpecLoadTrip ==
    /\ SpecLoadTrip
    /\ WF_vars(RunEffect)
    /\ WF_vars(Render)
    /\ WF_vars(AnswerTrip)
    /\ WF_vars(AnswerError)
    /\ WF_vars(AnswerUnmounted)

-----------------------------------------------------------------------------
(* C29 *)

\* no trip request is in flight and none is on its way: no effect is due and
\* no render that would make it due
Settled ==
    /\ hook.inFlight = 0
    /\ ~(form.at = "page" /\ (form.effectDue \/ form.renderDue))

\* C29 as stated: left alone, with every request answered, the page calls
\* getTripByCode only finitely many times and comes to stay in a state with no
\* trip request in flight or on its way.
C29_TripLoadingSettles == <>[]Settled /\ <>[][~RunEffect]_vars

====
